---- MODULE Spec2Model ----
(***************************************************************************)
(* rgis-mosregru-parse: the page scraper (scraper.py), the geometry        *)
(* fetcher (geometry_fetcher.py) and the GeoJSON flattener                 *)
(* (flatten_geojson.py).  Each script is a separate program; a behaviour   *)
(* of this module is one run of one of them.                               *)
(*                                                                         *)
(*   SpecPartition  distribute_pages called on arbitrary integer inputs,   *)
(*                  beside main's validation of the same arguments         *)
(*   SpecScraper    scraper.py main: validation, single worker or the      *)
(*                  process pool, process_data, the write of data.json     *)
(*   SpecGeom       geometry_fetcher.py main: validation, the gated fetch  *)
(*                  tasks of process_batch, the None filter, create_geojson*)
(*   FairSpecGeom   SpecGeom under the event loop's fairness, on the       *)
(*                  shorter input documents                                *)
(*   Spec           one run of either harvest script                       *)
(*   SpecFlatten    flatten_geojson.py: one call of flatten_geojson        *)
(***************************************************************************)
EXTENDS Integers, Sequences, FiniteSets, TLC

(* ------------------------------- bounds -------------------------------- *)
\* largest --max-pages value tried
MaxPages == 4
\* largest --workers value tried
MaxWorkers == 2
\* rows carried by one catalogue page
RowsPerPage == 2
\* longest input document of the geometry fetcher
MaxRecords == 3
\* number of distinct non-empty geometry ids
NumIds == 2
\* largest --concurrent value tried
MaxConcurrent == 2
\* longest input document tried under the event loop's fairness
MaxFairRecords == 2
\* most features in the flattener's input document
MaxFeatures == 2
\* most sub-records in one nested FeatureCollection
MaxNested == 2
\* largest max_pages and workers handed to distribute_pages directly
MaxCallPages == 9
MaxCallWorkers == 7

(* ------------------------- Python arithmetic --------------------------- *)
\* Python's min(a, b)
py_min(a, b) == IF a <= b THEN a ELSE b

\* Python's a // b for b # 0: the floor of the quotient, whatever the signs
py_floordiv(a, b) == IF b > 0 THEN a \div b ELSE (0 - a) \div (0 - b)

\* Python's a % b for b # 0: the remainder with the sign of the divisor
py_mod(a, b) == a - b * py_floordiv(a, b)

(* --------------------------- sequence helpers -------------------------- *)
RECURSIVE Concat(_, _, _)
\* f[lo] \o f[lo+1] \o ... \o f[hi]
Concat(f, lo, hi) == IF lo > hi THEN << >> ELSE f[lo] \o Concat(f, lo + 1, hi)

\* the set of the members of a sequence
Range(s) == { s[k] : k \in DOMAIN s }

(* ====================== scraper.py: distribute_pages =================== *)
\* scraper.py:95: worker i (0-based) gets one extra page while i < remainder
worker_pages_skew(pages_per_worker, remainder, i) ==
    pages_per_worker + (IF i <= remainder THEN 1 ELSE 0)

worker_pages(pages_per_worker, remainder, i) ==
    pages_per_worker + (IF i < remainder THEN 1 ELSE 0)

RECURSIVE page_ranges_from(_, _, _, _, _)
\* scraper.py:94-99: the loop over range(workers) from iteration i on
page_ranges_from(i, start_page, workers, pages_per_worker, remainder) ==
    IF i >= workers THEN << >>
    ELSE LET end_page == start_page + worker_pages(pages_per_worker, remainder, i) - 1
         IN  << <<start_page, end_page>> >>
             \o page_ranges_from(i + 1, end_page + 1, workers, pages_per_worker, remainder)

\* scraper.py:85-101.  min(workers, max_pages) = 0 makes both // and % raise
\* ZeroDivisionError; a negative minimum makes range(workers) empty.
distribute_pages(max_pages, workers) ==
    LET w == py_min(workers, max_pages) IN
    IF w = 0
    THEN [status |-> "ZeroDivisionError", ranges |-> << >>]
    ELSE [status |-> "returned",
          ranges |-> page_ranges_from(0, 1, w, py_floordiv(max_pages, w),
                                      py_mod(max_pages, w))]

\* scraper.py:144-150: main's validation of --max-pages and --workers
args_rejected_lax(max_pages, workers) == max_pages < 0 \/ workers < 0

args_rejected(max_pages, workers) == max_pages < 1 \/ workers < 1

(* =============================== state ================================= *)
VARIABLES
    \* --- distribute_pages called directly ---
    dp_args,        \* [max_pages, workers]: the two integer arguments
    dp_call,        \* [status, ranges]: how the direct call ended
    dp_main,        \* what main's validation says of the same arguments
    \* --- scraper.py ---
    args,           \* [max_pages, workers]: the parsed command line
    main_pc,        \* where main stands
    main_exc,       \* the exception that left main, "none" while there is none
    page_ranges,    \* the (start_page, end_page) tuples handed to the workers
    w_pc,           \* per worker: its position in fetch_data_with_browser
    w_page,         \* per worker: the page its for loop fetches next
    w_data,         \* per worker: its local all_data
    browser,        \* per worker: "none", "open" or "closed"
    quits,          \* per worker: the number of browser.quit() calls
    page_out,       \* per page: the outcome of its fetch, "unfetched" before
    fetch_count,    \* per page: the number of browser.get(url) calls for it
    done_order,     \* the workers in the order their futures completed
    n_collected,    \* the number of futures the as_completed loop has taken
    all_data,       \* parallel_fetch_data's all_data / main's data
    data_json,      \* the documents written to args.output, in order
    \* --- geometry_fetcher.py ---
    g_concurrent,   \* args.concurrent
    g_pc,           \* where main / fetch_all_geometries stands
    records,        \* the input document: the list json.load returns
    properties_map, \* geometry id -> {zone_code, municipality}
    geometry_ids,   \* the truthy geometry ids, in input order
    sem_value,      \* the free permits of process_batch's semaphore
    t_pc,           \* per task: "none", "pending", "inflight", "done", "collected"
    t_out,          \* per task: how its fetch ended, "none" before
    t_fetches,      \* per task: the number of session.get calls it made
    done_q,         \* the tasks in the order they completed
    results,        \* process_batch's results dict, in insertion order
    progress,       \* progress_bar's count: the results taken so far
    geojson_file,   \* the documents written to args.output, in order
    summary,        \* the counts of the closing "Successfully fetched" line
    \* --- flatten_geojson.py ---
    fl_data,        \* the input document: what json.load returns
    fl_pc,          \* where flatten_geojson stands
    fl_exc,         \* the exception that left flatten_geojson, "none" otherwise
    fl_file         \* the documents written to output_file, in order

partVars == <<dp_args, dp_call, dp_main>>
scraperVars == <<args, main_pc, main_exc, page_ranges, w_pc, w_page, w_data,
                 browser, quits, page_out, fetch_count, done_order,
                 n_collected, all_data, data_json>>
geomVars == <<g_concurrent, g_pc, records, properties_map, geometry_ids,
              sem_value, t_pc, t_out, t_fetches, done_q, results, progress,
              geojson_file, summary>>
flatVars == <<fl_data, fl_pc, fl_exc, fl_file>>
vars == <<partVars, scraperVars, geomVars, flatVars>>

Workers == 1 .. MaxWorkers
Pages == 1 .. MaxPages
\* the integers tried as command-line values: the valid ones, 0 and -1
PageArgs == -1 .. MaxPages
WorkerArgs == -1 .. MaxWorkers
ConcurrentArgs == -1 .. MaxConcurrent
Tasks == 1 .. MaxRecords
\* geometry ids: 0 stands for a falsy one (missing, None or empty)
GeometryIds == 0 .. NumIds
CallPageArgs == -1 .. MaxCallPages
CallWorkerArgs == -1 .. MaxCallWorkers

(* --------------------- the programs that do not run -------------------- *)
PartIdle ==
    /\ dp_args = [max_pages |-> 1, workers |-> 1]
    /\ dp_call = [status |-> "idle", ranges |-> << >>]
    /\ dp_main = "idle"

ScraperIdle ==
    /\ args = [max_pages |-> 1, workers |-> 1]
    /\ main_pc = "idle"
    /\ main_exc = "none"
    /\ page_ranges = << >>
    /\ w_pc = [i \in Workers |-> "unused"]
    /\ w_page = [i \in Workers |-> 0]
    /\ w_data = [i \in Workers |-> << >>]
    /\ browser = [i \in Workers |-> "none"]
    /\ quits = [i \in Workers |-> 0]
    /\ page_out = [p \in Pages |-> "unfetched"]
    /\ fetch_count = [p \in Pages |-> 0]
    /\ done_order = << >>
    /\ n_collected = 0
    /\ all_data = << >>
    /\ data_json = << >>

GeomIdle ==
    /\ g_concurrent = 1
    /\ g_pc = "idle"
    /\ records = << >>
    /\ properties_map = << >>
    /\ geometry_ids = << >>
    /\ sem_value = 0
    /\ t_pc = [t \in Tasks |-> "none"]
    /\ t_out = [t \in Tasks |-> "none"]
    /\ t_fetches = [t \in Tasks |-> 0]
    /\ done_q = << >>
    /\ results = << >>
    /\ progress = 0
    /\ geojson_file = << >>
    /\ summary = [fetched |-> 0, total |-> 0]

FlattenIdle ==
    /\ fl_data = [type |-> "FeatureCollection", features |-> << >>]
    /\ fl_pc = "idle"
    /\ fl_exc = "none"
    /\ fl_file = << >>

(* =============== distribute_pages called on any integers =============== *)
InitPartition ==
    /\ dp_args \in [max_pages : CallPageArgs, workers : CallWorkerArgs]
    /\ dp_call = [status |-> "not_called", ranges |-> << >>]
    /\ dp_main = "not_run"
    /\ ScraperIdle
    /\ GeomIdle
    /\ FlattenIdle

\* scraper.py:85-101: one direct call of distribute_pages
CallDistributePages ==
    /\ dp_call.status = "not_called"
    /\ dp_call' = distribute_pages(dp_args.max_pages, dp_args.workers)
    /\ UNCHANGED <<dp_args, dp_main, scraperVars, geomVars, flatVars>>

\* scraper.py:144-150: main's validation of the same two arguments
MainValidates ==
    /\ dp_main = "not_run"
    /\ dp_main' = IF args_rejected(dp_args.max_pages, dp_args.workers)
                  THEN "rejected" ELSE "accepted"
    /\ UNCHANGED <<dp_args, dp_call, scraperVars, geomVars, flatVars>>

NextPartition == CallDistributePages \/ MainValidates

SpecPartition == InitPartition /\ [][NextPartition]_vars

(* ============================= scraper.py ============================== *)
\* What one page's fetch inside the for loop can do (scraper.py:46-55):
\*   "nav_raise"  browser.get(url) raises, outside the inner try
\*   "fail"       wait_for_element times out, find_element or json.loads
\*                raises: caught at line 54, nothing is added
\*   "rows"       the page's rows, each with columns and meta.geometry
\*   "nogeom"     the page's rows, each well formed but without meta.geometry
\*   "malformed"  JSON that parses, with rows lacking "columns" or "meta"
PageOutcomes == {"nav_raise", "fail", "rows", "nogeom", "malformed"}

\* the raw rows json.loads gives for page p under outcome o
page_data(p, o) ==
    IF o \in {"rows", "nogeom", "malformed"}
    THEN [k \in 1 .. RowsPerPage |-> [page |-> p, idx |-> k, shape |-> o]]
    ELSE << >>

\* scraper.py:67-77: one processed_item; geometry_id is None (here 0) when meta
\* has no "geometry" key
processed_item(item) ==
    [number |-> <<item.page, item.idx>>,
     geometry_id |-> IF item.shape = "rows" THEN item.idx ELSE 0]

RECURSIVE process_items(_)
\* scraper.py:66-80: the loop, for rows that all have "columns" and "meta"
process_items(data) ==
    IF data = << >> THEN << >>
    ELSE LET it == processed_item(Head(data)) IN
         (IF it.geometry_id # 0 THEN <<it>> ELSE << >>) \o process_items(Tail(data))

\* scraper.py:63-82: item["columns"] / item["meta"] raise KeyError on the first
\* row that lacks them, and nothing is returned
process_data(data) ==
    IF \E k \in DOMAIN data : data[k].shape = "malformed"
    THEN [status |-> "KeyError", items |-> << >>]
    ELSE [status |-> "returned", items |-> process_items(data)]

InitScraper ==
    /\ args \in [max_pages : PageArgs, workers : WorkerArgs]
    /\ main_pc = "start"
    /\ main_exc = "none"
    /\ page_ranges = << >>
    /\ w_pc = [i \in Workers |-> "unused"]
    /\ w_page = [i \in Workers |-> 0]
    /\ w_data = [i \in Workers |-> << >>]
    /\ browser = [i \in Workers |-> "none"]
    /\ quits = [i \in Workers |-> 0]
    /\ page_out = [p \in Pages |-> "unfetched"]
    /\ fetch_count = [p \in Pages |-> 0]
    /\ done_order = << >>
    /\ n_collected = 0
    /\ all_data = << >>
    /\ data_json = << >>
    /\ PartIdle
    /\ GeomIdle
    /\ FlattenIdle

\* scraper.py:144-150: an invalid argument prints an error and returns
MainRejects ==
    /\ main_pc = "start"
    /\ args_rejected(args.max_pages, args.workers)
    /\ main_pc' = "rejected"
    /\ UNCHANGED <<args, main_exc, page_ranges, w_pc, w_page, w_data, browser,
                   quits, page_out, fetch_count, done_order, n_collected,
                   all_data, data_json, partVars, geomVars, flatVars>>

\* scraper.py:159-161, 104-117: workers > 1: parallel_fetch_data partitions the
\* pages and submits one fetch_data_with_browser per range
MainStartsPool ==
    /\ main_pc = "start"
    /\ ~args_rejected(args.max_pages, args.workers)
    /\ args.workers > 1
    /\ LET d == distribute_pages(args.max_pages, args.workers) IN
       /\ d.status = "returned"
       /\ page_ranges' = d.ranges
       /\ w_pc' = [i \in Workers |->
                     IF i <= Len(d.ranges) THEN "submitted" ELSE "unused"]
    /\ main_pc' = "collecting"
    /\ UNCHANGED <<args, main_exc, w_page, w_data, browser, quits, page_out,
                   fetch_count, done_order, n_collected, all_data, data_json,
                   partVars, geomVars, flatVars>>

\* scraper.py:162-164: workers = 1: main itself calls
\* fetch_data_with_browser((1, max_pages)), with no pool around it
MainCallsSingle ==
    /\ main_pc = "start"
    /\ ~args_rejected(args.max_pages, args.workers)
    /\ ~(args.workers > 1)
    /\ page_ranges' = << <<1, args.max_pages>> >>
    /\ w_pc' = [i \in Workers |-> IF i = 1 THEN "submitted" ELSE "unused"]
    /\ main_pc' = "single"
    /\ UNCHANGED <<args, main_exc, w_page, w_data, browser, quits, page_out,
                   fetch_count, done_order, n_collected, all_data, data_json,
                   partVars, geomVars, flatVars>>

\* the future of worker i completes: as_completed sees it (pool runs only)
completed(i) == IF main_pc = "collecting" THEN Append(done_order, i) ELSE done_order

\* scraper.py:27: Driver(...) before the try: it opens the browser or raises
OpenBrowser(i) ==
    /\ w_pc[i] = "submitted"
    /\ \/ /\ w_pc' = [w_pc EXCEPT ![i] = "opened"]
          /\ browser' = [browser EXCEPT ![i] = "open"]
          /\ UNCHANGED done_order
       \/ /\ w_pc' = [w_pc EXCEPT ![i] = "raised"]
          /\ done_order' = completed(i)
          /\ UNCHANGED browser
    /\ UNCHANGED <<args, main_pc, main_exc, page_ranges, w_page, w_data, quits,
                   page_out, fetch_count, n_collected, all_data, data_json,
                   partVars, geomVars, flatVars>>

\* scraper.py:30-35, 59-60: the authentication page.  browser.get raises (the
\* finally quits the browser and the worker raises) or returns; a timed out
\* wait_for_element is caught and only warned about
Authenticate(i) ==
    /\ w_pc[i] = "opened"
    /\ \/ /\ w_pc' = [w_pc EXCEPT ![i] = "paging"]
          /\ w_page' = [w_page EXCEPT ![i] = page_ranges[i][1]]
          /\ UNCHANGED <<browser, quits, done_order>>
       \/ /\ w_pc' = [w_pc EXCEPT ![i] = "raised"]
          /\ browser' = [browser EXCEPT ![i] = "closed"]
          /\ quits' = [quits EXCEPT ![i] = @ + 1]
          /\ done_order' = completed(i)
          /\ UNCHANGED w_page
    /\ UNCHANGED <<args, main_pc, main_exc, page_ranges, w_data, page_out,
                   fetch_count, n_collected, all_data, data_json, partVars, geomVars, flatVars>>

\* scraper.py:45: the for loop moves on to the next page of the range,
\* whatever the caught outcome of the page just tried
next_page_skip(p, o) == IF o = "fail" THEN p + 2 ELSE p + 1

next_page_retry(p, o) == IF o = "fail" THEN p ELSE p + 1

next_page(p, o) == p + 1

\* scraper.py:45-55, 59-60: one iteration of the for loop
FetchPage(i) ==
    /\ w_pc[i] = "paging"
    /\ w_page[i] <= page_ranges[i][2]
    /\ \E o \in PageOutcomes :
         LET p == w_page[i] IN
         /\ fetch_count' = [fetch_count EXCEPT ![p] = @ + 1]
         /\ page_out' = [page_out EXCEPT ![p] = o]
         /\ IF o = "nav_raise"
            THEN /\ w_pc' = [w_pc EXCEPT ![i] = "raised"]
                 /\ browser' = [browser EXCEPT ![i] = "closed"]
                 /\ quits' = [quits EXCEPT ![i] = @ + 1]
                 /\ done_order' = completed(i)
                 /\ UNCHANGED <<w_page, w_data>>
            ELSE /\ w_data' = [w_data EXCEPT ![i] = @ \o page_data(p, o)]
                 /\ w_page' = [w_page EXCEPT ![i] = next_page(p, o)]
                 /\ UNCHANGED <<w_pc, browser, quits, done_order>>
    /\ UNCHANGED <<args, main_pc, main_exc, page_ranges, n_collected, all_data,
                   data_json, partVars, geomVars, flatVars>>

\* scraper.py:57-60: the loop is over: return all_data, the finally quits
WorkerReturns_without_finally(i) ==
    /\ w_pc[i] = "paging"
    /\ w_page[i] > page_ranges[i][2]
    /\ w_pc' = [w_pc EXCEPT ![i] = "returned"]
    /\ done_order' = completed(i)
    /\ UNCHANGED <<args, main_pc, main_exc, page_ranges, w_page, w_data,
                   browser, quits, page_out, fetch_count, n_collected,
                   all_data, data_json, partVars, geomVars, flatVars>>

WorkerReturns(i) ==
    /\ w_pc[i] = "paging"
    /\ w_page[i] > page_ranges[i][2]
    /\ w_pc' = [w_pc EXCEPT ![i] = "returned"]
    /\ browser' = [browser EXCEPT ![i] = "closed"]
    /\ quits' = [quits EXCEPT ![i] = @ + 1]
    /\ done_order' = completed(i)
    /\ UNCHANGED <<args, main_pc, main_exc, page_ranges, w_page, w_data,
                   page_out, fetch_count, n_collected, all_data, data_json,
                   partVars, geomVars, flatVars>>

\* scraper.py:123-128 without the try/except: the worker's exception leaves
\* parallel_fetch_data and main
collect_uncaught(i) ==
    IF w_pc[i] = "returned"
    THEN [all_data |-> all_data \o w_data[i], exc |-> "none"]
    ELSE [all_data |-> all_data, exc |-> "worker"]

\* scraper.py:123-128: future.result() gives the worker's list, which is
\* appended, or re-raises the worker's exception, which is caught and printed
collect(i) ==
    IF w_pc[i] = "returned"
    THEN [all_data |-> all_data \o w_data[i], exc |-> "none"]
    ELSE [all_data |-> all_data, exc |-> "none"]

\* scraper.py:119-130: one iteration of the as_completed loop; after the last
\* future the executor is left and all_data returned to main (line 161)
Collect ==
    /\ main_pc = "collecting"
    /\ n_collected < Len(done_order)
    /\ LET c == collect(done_order[n_collected + 1]) IN
       /\ all_data' = c.all_data
       /\ n_collected' = n_collected + 1
       /\ main_exc' = c.exc
       /\ main_pc' = IF c.exc # "none" THEN "raised"
                     ELSE IF n_collected + 1 = Len(page_ranges) THEN "fetched"
                     ELSE "collecting"
    /\ UNCHANGED <<args, page_ranges, w_pc, w_page, w_data, browser, quits,
                   page_out, fetch_count, done_order, data_json, partVars, geomVars, flatVars>>

\* scraper.py:164: the direct call returns its list to main, or its exception
\* leaves main: nothing catches it
SingleCallEnds ==
    /\ main_pc = "single"
    /\ w_pc[1] \in {"returned", "raised"}
    /\ IF w_pc[1] = "returned"
       THEN /\ all_data' = w_data[1]
            /\ main_pc' = "fetched"
            /\ UNCHANGED main_exc
       ELSE /\ main_pc' = "raised"
            /\ main_exc' = "worker"
            /\ UNCHANGED all_data
    /\ UNCHANGED <<args, page_ranges, w_pc, w_page, w_data, browser, quits,
                   page_out, fetch_count, done_order, n_collected, data_json,
                   partVars, geomVars, flatVars>>

\* scraper.py:166-169: process_data, then the one json.dump to args.output; a
\* KeyError of process_data leaves main before the file is opened
ProcessAndWrite_before_join ==
    /\ main_pc \in {"collecting", "fetched"}
    /\ n_collected >= 1
    /\ data_json' = Append(data_json, process_items(
                        SelectSeq(all_data, LAMBDA row : row.shape # "malformed")))
    /\ main_pc' = "written"
    /\ UNCHANGED <<args, main_exc, page_ranges, w_pc, w_page, w_data, browser,
                   quits, page_out, fetch_count, done_order, n_collected,
                   all_data, partVars, geomVars, flatVars>>

ProcessAndWrite ==
    /\ main_pc = "fetched"
    /\ LET r == process_data(all_data) IN
       IF r.status = "returned"
       THEN /\ data_json' = Append(data_json, r.items)
            /\ main_pc' = "written"
            /\ UNCHANGED main_exc
       ELSE /\ main_pc' = "raised"
            /\ main_exc' = "process_data"
            /\ UNCHANGED data_json
    /\ UNCHANGED <<args, page_ranges, w_pc, w_page, w_data, browser, quits,
                   page_out, fetch_count, done_order, n_collected, all_data,
                   partVars, geomVars, flatVars>>

NextScraper ==
    \/ MainRejects
    \/ MainStartsPool
    \/ MainCallsSingle
    \/ \E i \in Workers : OpenBrowser(i)
    \/ \E i \in Workers : Authenticate(i)
    \/ \E i \in Workers : FetchPage(i)
    \/ \E i \in Workers : WorkerReturns(i)
    \/ Collect
    \/ SingleCallEnds
    \/ ProcessAndWrite

SpecScraper == InitScraper /\ [][NextScraper]_vars

(* ========================= geometry_fetcher.py ========================= *)
\* Python dicts keep insertion order: a dict is the sequence of its
\* [k, v] items.
dict_has(d, k) == \E n \in DOMAIN d : d[n].k = k

dict_get(d, k) == d[CHOOSE n \in DOMAIN d : d[n].k = k].v

\* d.setdefault(k, v) in the place of d[k] = v: the first value stays
dict_setdefault(d, k, v) ==
    IF \E n \in DOMAIN d : d[n].k = k THEN d ELSE Append(d, [k |-> k, v |-> v])

\* d[k] = v: a key already present keeps its place, a new key goes last
dict_set(d, k, v) ==
    IF dict_has(d, k)
    THEN [n \in DOMAIN d |-> IF d[n].k = k THEN [k |-> k, v |-> v] ELSE d[n]]
    ELSE Append(d, [k |-> k, v |-> v])

dict_keys(d) == { d[n].k : n \in DOMAIN d }

\* None as a geometry
NoGeometry == [type |-> "None", of |-> 0]
\* the "geometry" member the remote holds for numberarea = id
Geometry(id) == [type |-> "Polygon", of |-> id]

\* How one fetch can end (geometry_fetcher.py:16-31):
\*   "geometry"     HTTP 200, the body has "geometry"
\*   "no_geometry"  HTTP 200, the body has no "geometry"
\*   "http_error"   a status other than 200
\*   "exception"    session.get or response.json raised
FetchOutcomes == {"geometry", "no_geometry", "http_error", "exception"}

\* geometry_fetcher.py:18-31: the second member of the returned pair
fetched_value(id, o) == IF o = "geometry" THEN Geometry(id) ELSE NoGeometry

\* geometry_fetcher.py:36: asyncio.Semaphore(max_concurrent_requests)
semaphore_unbounded(max_concurrent_requests, n_tasks) ==
    IF n_tasks > max_concurrent_requests THEN n_tasks ELSE max_concurrent_requests

semaphore(max_concurrent_requests, n_tasks) == max_concurrent_requests

\* geometry_fetcher.py:13: leaving "async with semaphore" releases the permit,
\* whatever the way out of the body
release_unless_raised(value, o) == IF o = "exception" THEN value ELSE value + 1

release(value, o) == value + 1

RECURSIVE build_properties_map(_, _)
\* geometry_fetcher.py:58-64: a later record with the same id overwrites
build_properties_map(data, acc) ==
    IF data = << >> THEN acc
    ELSE LET item == Head(data) IN
         build_properties_map(Tail(data),
            IF item.geometry_id # 0
            THEN dict_set(acc, item.geometry_id,
                          [zone_code |-> item.zone_code,
                           municipality |-> item.municipality])
            ELSE acc)

\* geometry_fetcher.py:66 (and the same filter at 40-43)
every_id(data) == [n \in DOMAIN data |-> data[n].geometry_id]

truthy_ids(data) ==
    SelectSeq([n \in DOMAIN data |-> data[n].geometry_id], LAMBDA g : g # 0)

\* geometry_fetcher.py:79: the dict comprehension that drops the None values
drop_none(d) == SelectSeq(d, LAMBDA it : it.v # NoGeometry)

\* geometry_fetcher.py:90-112
create_geojson(geometries, props) ==
    [type |-> "FeatureCollection",
     features |->
        [n \in DOMAIN geometries |->
            [type |-> "Feature",
             properties |->
                [geometry_id |-> geometries[n].k,
                 zone_code |-> IF dict_has(props, geometries[n].k)
                               THEN dict_get(props, geometries[n].k).zone_code
                               ELSE 0,
                 municipality |-> IF dict_has(props, geometries[n].k)
                                  THEN dict_get(props, geometries[n].k).municipality
                                  ELSE 0],
             geometry |-> geometries[n].v]]]

\* Geometry ids are opaque: a document is tried with its ids named in the
\* order of their first appearance (the first new id is 1, the next one 2, ...).
FirstAppearanceOrder(ids) ==
    \A n \in DOMAIN ids :
        \A g \in 1 .. ids[n] - 1 : \E m \in 1 .. n - 1 : ids[m] = g

\* The input documents tried: record n has zone code n and municipality 10 + n
\* (the fields of distinct records differ), and any geometry id, falsy or not.
InputDocuments ==
    UNION { { [n \in 1 .. len |->
                 [geometry_id |-> ids[n], zone_code |-> n, municipality |-> 10 + n]]
              : ids \in { f \in [1 .. len -> GeometryIds] : FirstAppearanceOrder(f) } }
            : len \in 0 .. MaxRecords }

InitGeom ==
    /\ g_concurrent \in ConcurrentArgs
    /\ g_pc = "start"
    /\ records \in InputDocuments
    /\ properties_map = << >>
    /\ geometry_ids = << >>
    /\ sem_value = 0
    /\ t_pc = [t \in Tasks |-> "none"]
    /\ t_out = [t \in Tasks |-> "none"]
    /\ t_fetches = [t \in Tasks |-> 0]
    /\ done_q = << >>
    /\ results = << >>
    /\ progress = 0
    /\ geojson_file = << >>
    /\ summary = [fetched |-> 0, total |-> 0]
    /\ PartIdle
    /\ ScraperIdle
    /\ FlattenIdle

\* geometry_fetcher.py:127-129
concurrent_rejected(concurrent) == concurrent < 1

GMainRejects ==
    /\ g_pc = "start"
    /\ concurrent_rejected(g_concurrent)
    /\ g_pc' = "rejected"
    /\ UNCHANGED <<g_concurrent, records, properties_map, geometry_ids,
                   sem_value, t_pc, t_out, t_fetches, done_q, results,
                   progress, geojson_file, summary, partVars, scraperVars, flatVars>>

\* geometry_fetcher.py:75-86: the end of fetch_all_geometries, from the dict
\* process_batch returned: update, the None filter, create_geojson, the one
\* json.dump, the summary line
finish(batch_results, props, ids) ==
    LET geometries == drop_none(batch_results) IN
    [doc |-> create_geojson(geometries, props),
     summary |-> [fetched |-> Len(geometries), total |-> Len(ids)]]

\* geometry_fetcher.py:138, 55-74, 36-46: the input is read, properties_map and
\* geometry_ids are built, process_batch creates the semaphore and one
\* fetch_geometry per truthy id, all scheduled at once by as_completed.  With
\* no id at all the loop body never runs and the (empty) output is written.
GMainStarts ==
    /\ g_pc = "start"
    /\ ~concurrent_rejected(g_concurrent)
    /\ LET props == build_properties_map(records, << >>)
           ids == truthy_ids(records)
       IN  /\ properties_map' = props
           /\ geometry_ids' = ids
           /\ sem_value' = semaphore(g_concurrent, Len(ids))
           /\ t_pc' = [t \in Tasks |-> IF t <= Len(ids) THEN "pending" ELSE "none"]
           /\ IF Len(ids) = 0
              THEN LET f == finish(<< >>, props, ids) IN
                   /\ geojson_file' = Append(geojson_file, f.doc)
                   /\ summary' = f.summary
                   /\ g_pc' = "done"
              ELSE /\ g_pc' = "gathering"
                   /\ UNCHANGED <<geojson_file, summary>>
    /\ UNCHANGED <<g_concurrent, records, t_out, t_fetches, done_q, results,
                   progress, partVars, scraperVars, flatVars>>

\* geometry_fetcher.py:13-17: a task takes a permit and issues its request
Acquire(t) ==
    /\ g_pc = "gathering"
    /\ t_pc[t] = "pending"
    /\ sem_value > 0
    /\ sem_value' = sem_value - 1
    /\ t_pc' = [t_pc EXCEPT ![t] = "inflight"]
    /\ t_fetches' = [t_fetches EXCEPT ![t] = @ + 1]
    /\ UNCHANGED <<g_concurrent, g_pc, records, properties_map, geometry_ids,
                   t_out, done_q, results, progress, geojson_file, summary,
                   partVars, scraperVars, flatVars>>

\* geometry_fetcher.py:17-31, 13: the request ends some way, the task returns
\* its pair and leaves the semaphore's block
Complete(t) ==
    /\ g_pc = "gathering"
    /\ t_pc[t] = "inflight"
    /\ \E o \in FetchOutcomes :
         /\ t_out' = [t_out EXCEPT ![t] = o]
         /\ sem_value' = release(sem_value, o)
    /\ t_pc' = [t_pc EXCEPT ![t] = "done"]
    /\ done_q' = Append(done_q, t)
    /\ UNCHANGED <<g_concurrent, g_pc, records, properties_map, geometry_ids,
                   t_fetches, results, progress, geojson_file, summary, partVars,
                   scraperVars, flatVars>>

\* geometry_fetcher.py:46-51, 75-86: the as_completed loop takes the next
\* completed task's pair; after the last one process_batch returns and
\* fetch_all_geometries filters, assembles and writes
GCollect ==
    /\ g_pc = "gathering"
    /\ progress < Len(done_q)
    /\ LET t == done_q[progress + 1]
           id == geometry_ids[t]
           r == dict_set(results, id, fetched_value(id, t_out[t]))
       IN  /\ results' = r
           /\ progress' = progress + 1
           /\ t_pc' = [t_pc EXCEPT ![t] = "collected"]
           /\ IF progress + 1 = Len(geometry_ids)
              THEN LET f == finish(r, properties_map, geometry_ids) IN
                   /\ geojson_file' = Append(geojson_file, f.doc)
                   /\ summary' = f.summary
                   /\ g_pc' = "done"
              ELSE UNCHANGED <<g_pc, geojson_file, summary>>
    /\ UNCHANGED <<g_concurrent, records, properties_map, geometry_ids,
                   sem_value, t_out, t_fetches, done_q, partVars, scraperVars, flatVars>>

NextGeom ==
    \/ GMainRejects
    \/ GMainStarts
    \/ \E t \in Tasks : Acquire(t)
    \/ \E t \in Tasks : Complete(t)
    \/ GCollect

SpecGeom == InitGeom /\ [][NextGeom]_vars

\* the runs checked for progress: input documents of MaxFairRecords at most
InitGeomFair == InitGeom /\ Len(records) <= MaxFairRecords

\* the event loop runs every task that can run, and every request ends
FairSpecGeom == InitGeomFair /\ [][NextGeom]_vars /\ WF_vars(NextGeom)

(* ========================= flatten_geojson.py ========================== *)
\* A JSON member of an object: absent, null, or an object whose items are kept
\* in insertion order like any dict.
Absent == [tag |-> "absent", items |-> << >>]
Object(items) == [tag |-> "dict", items |-> items]

RECURSIVE dict_update(_, _)
\* d.update(e): the items of e are set one by one
dict_update(d, e) ==
    IF e = << >> THEN d
    ELSE dict_update(dict_set(d, Head(e).k, Head(e).v), Tail(e))

\* A "geometry" member: absent, null, or an object with a "type"; a nested
\* FeatureCollection has its sub-records in "features", any other geometry is
\* named by "of".
AbsentGeometry == [tag |-> "absent", type |-> "None", of |-> 0, features |-> << >>]
NullGeometry == [tag |-> "null", type |-> "None", of |-> 0, features |-> << >>]
PlainGeometry(type, of) == [tag |-> "dict", type |-> type, of |-> of, features |-> << >>]
NestedGeometry(features) ==
    [tag |-> "dict", type |-> "FeatureCollection", of |-> 0, features |-> features]

\* flatten_geojson.py:19: feature.get('geometry', {}).get('type').  The default
\* {} only stands in for an absent key: a null geometry is returned as None,
\* and None.get raises AttributeError.
geometry_type(feature) ==
    CASE feature.geometry.tag = "absent" -> "None"
      [] feature.geometry.tag = "null" -> "AttributeError"
      [] OTHER -> feature.geometry.type

\* flatten_geojson.py:21: feature.get('properties', {})
get_properties(feature) ==
    IF feature.properties.tag = "absent" THEN Object(<< >>) ELSE feature.properties

\* flatten_geojson.py:26-28: the outer properties, updated with the
\* sub-record's own when it has a non-empty "properties"
merge_properties_outer_wins(properties, nested_feature) ==
    IF nested_feature.properties.tag = "dict" /\ nested_feature.properties.items # << >>
    THEN Object(dict_update(nested_feature.properties.items, properties.items))
    ELSE properties

merge_properties(properties, nested_feature) ==
    IF nested_feature.properties.tag = "dict" /\ nested_feature.properties.items # << >>
    THEN Object(dict_update(properties.items, nested_feature.properties.items))
    ELSE properties

\* flatten_geojson.py:19-34: what one feature of the input appends.
\* properties.copy() raises AttributeError when the outer "properties" is null
\* and there is a sub-record to copy it for.
flatten_feature(feature) ==
    LET type == geometry_type(feature)
        nested_features == feature.geometry.features
        properties == get_properties(feature)
    IN  IF type = "AttributeError"
        THEN [status |-> "AttributeError", entries |-> << >>]
        ELSE IF type = "FeatureCollection"
        THEN IF nested_features # << >> /\ properties.tag # "dict"
             THEN [status |-> "AttributeError", entries |-> << >>]
             ELSE [status |-> "ok",
                   entries |->
                      [k \in DOMAIN nested_features |->
                          [nested_features[k] EXCEPT
                              !.properties =
                                  merge_properties(properties, nested_features[k])]]]
        ELSE [status |-> "ok", entries |-> <<feature>>]

RECURSIVE flatten_features(_)
\* flatten_geojson.py:18-34: the loop; the first feature that raises ends it
flatten_features(features) ==
    IF features = << >> THEN [status |-> "ok", entries |-> << >>]
    ELSE LET h == flatten_feature(Head(features)) IN
         IF h.status # "ok" THEN h
         ELSE LET r == flatten_features(Tail(features)) IN
              IF r.status # "ok" THEN r
              ELSE [status |-> "ok", entries |-> h.entries \o r.entries]

\* The input documents tried.  Feature n has the properties zone_code = n and
\* municipality = 10 + n; its geometry is absent, null, a polygon, or a nested
\* FeatureCollection of up to MaxNested sub-records.  Sub-record k of feature n
\* has its own point geometry and either no "properties", an empty one, or its
\* own zone_code (colliding with the outer one) and name.
SubKinds == {"absent", "empty", "own"}

outer_properties(n) ==
    Object(<<[k |-> "zone_code", v |-> n], [k |-> "municipality", v |-> 10 + n]>>)

sub_record(n, k, kind) ==
    [type |-> "Feature",
     properties |->
        CASE kind = "absent" -> Absent
          [] kind = "empty" -> Object(<< >>)
          [] OTHER -> Object(<<[k |-> "zone_code", v |-> 100 + 10 * n + k],
                               [k |-> "name", v |-> k]>>),
     geometry |-> PlainGeometry("Point", 10 * n + k)]

GeometryShapes ==
    { [kind |-> g, subs |-> << >>] : g \in {"absent", "null", "plain"} }
    \cup UNION { { [kind |-> "nested", subs |-> s] : s \in [1 .. m -> SubKinds] }
                 : m \in 0 .. MaxNested }

input_feature(n, shape) ==
    [type |-> "Feature",
     properties |-> outer_properties(n),
     geometry |->
        CASE shape.kind = "absent" -> AbsentGeometry
          [] shape.kind = "null" -> NullGeometry
          [] shape.kind = "plain" -> PlainGeometry("Polygon", n)
          [] OTHER -> NestedGeometry([k \in DOMAIN shape.subs |->
                                         sub_record(n, k, shape.subs[k])])]

\* the input document with the features of the given shapes
input_document(type, shapes) ==
    [type |-> type,
     features |-> [n \in DOMAIN shapes |-> input_feature(n, shapes[n])]]

InitFlatten ==
    /\ \E len \in 0 .. MaxFeatures :
          \E shapes \in [1 .. len -> GeometryShapes] :
             \E type \in {"FeatureCollection", "Feature"} :
                fl_data = input_document(type, shapes)
    /\ fl_pc = "start"
    /\ fl_exc = "none"
    /\ fl_file = << >>
    /\ PartIdle
    /\ ScraperIdle
    /\ GeomIdle

\* flatten_geojson.py:9-11: the input is not a FeatureCollection
FlattenRejects ==
    /\ fl_pc = "start"
    /\ fl_data.type # "FeatureCollection"
    /\ fl_pc' = "rejected"
    /\ UNCHANGED <<fl_data, fl_exc, fl_file, partVars, scraperVars, geomVars>>

\* flatten_geojson.py:13-40: the loop over the features and the one json.dump,
\* or the exception that leaves the loop
FlattenRuns ==
    /\ fl_pc = "start"
    /\ fl_data.type = "FeatureCollection"
    /\ LET r == flatten_features(fl_data.features) IN
       IF r.status = "ok"
       THEN /\ fl_file' = Append(fl_file, [type |-> "FeatureCollection",
                                           features |-> r.entries])
            /\ fl_pc' = "written"
            /\ fl_exc' = "none"
       ELSE /\ fl_pc' = "raised"
            /\ fl_exc' = r.status
            /\ UNCHANGED fl_file
    /\ UNCHANGED <<fl_data, partVars, scraperVars, geomVars>>

NextFlatten == FlattenRejects \/ FlattenRuns

SpecFlatten == InitFlatten /\ [][NextFlatten]_vars

(* ======================= either harvest script ========================= *)
Init == InitScraper \/ InitGeom

Next == NextScraper \/ NextGeom

Spec == Init /\ [][Next]_vars

(* ------------------------------ C1, C2 --------------------------------- *)
range_size(r) == r[2] - r[1] + 1

DpCalled == dp_call.status # "not_called" /\ dp_call.status # "idle"
DpValid == dp_args.max_pages >= 1 /\ dp_args.workers >= 1

\* C1: for max_pages >= 1 and workers >= 1 distribute_pages returns exactly
\* min(workers, max_pages) ranges; they are non-empty and contiguous, start at
\* page 1, end at page max_pages and cover every page exactly once; with
\* base = max_pages // w' and r = max_pages % w', the first r ranges hold
\* base + 1 pages and the rest hold base, so no two sizes differ by more than 1.
C1_PartitionContract ==
    (DpCalled /\ DpValid) =>
        LET rs == dp_call.ranges
            n == py_min(dp_args.workers, dp_args.max_pages)
            base == dp_args.max_pages \div n
            r == dp_args.max_pages % n
        IN  /\ dp_call.status = "returned"
            /\ Len(rs) = n
            /\ rs[1][1] = 1
            /\ rs[n][2] = dp_args.max_pages
            /\ \A k \in 1 .. n : rs[k][1] <= rs[k][2]
            /\ \A k \in 1 .. n - 1 : rs[k + 1][1] = rs[k][2] + 1
            /\ \A p \in 1 .. dp_args.max_pages :
                   Cardinality({k \in 1 .. n : rs[k][1] <= p /\ p <= rs[k][2]}) = 1
            /\ \A k \in 1 .. n :
                   range_size(rs[k]) = IF k <= r THEN base + 1 ELSE base
            /\ \A j, k \in 1 .. n :
                   range_size(rs[j]) - range_size(rs[k]) <= 1

\* a call with a remainder: the first range is one page longer than the last
C1_Witness ==
    /\ DpCalled /\ DpValid
    /\ Len(dp_call.ranges) >= 3
    /\ range_size(dp_call.ranges[1]) = range_size(dp_call.ranges[Len(dp_call.ranges)]) + 1

\* C2 as stated: called with max_pages < 1 or workers < 1, the partitioner
\* itself fails with InvalidArgument.
C2_PartitionerRaisesInvalidArgument ==
    (DpCalled /\ ~DpValid) => dp_call.status = "InvalidArgument"

\* C2 as amended: distribute_pages validates nothing.  Called with
\* max_pages < 1 or workers < 1 it raises ZeroDivisionError when
\* min(workers, max_pages) = 0 and returns an empty list when that minimum is
\* negative; the rejection of such arguments is main's, which refuses exactly
\* the pairs with max_pages < 1 or workers < 1 (and then never calls it).
C2_ValidationIsMains ==
    /\ (DpCalled /\ ~DpValid) =>
          LET w == py_min(dp_args.workers, dp_args.max_pages) IN
          /\ w = 0 => dp_call = [status |-> "ZeroDivisionError", ranges |-> << >>]
          /\ w < 0 => dp_call = [status |-> "returned", ranges |-> << >>]
    /\ dp_main \in {"rejected", "accepted"} =>
          (dp_main = "rejected" <=> ~DpValid)

\* an invalid pair on which the call divides by zero and main has refused
C2_Witness ==
    /\ dp_call.status = "ZeroDivisionError"
    /\ dp_main = "rejected"
    /\ dp_args.workers = 0

(* ------------------------------ C3, C4 --------------------------------- *)
InFlight == { t \in Tasks : t_pc[t] = "inflight" }
Scheduled == 1 .. Len(geometry_ids)
BatchRunning == g_pc \in {"gathering", "done"}

\* C3: in process_batch with max_concurrent_requests = K, in every reachable
\* state the number of fetches that have issued their request and not yet
\* completed is at most K, however many geometry ids are scheduled.
C3_AtMostKInFlight ==
    BatchRunning => Cardinality(InFlight) <= g_concurrent

\* K requests in flight while a further scheduled task waits at the gate
C3_Witness ==
    /\ g_pc = "gathering"
    /\ g_concurrent = MaxConcurrent
    /\ Cardinality(InFlight) = g_concurrent
    /\ \E t \in Scheduled : t_pc[t] = "pending"

\* C4: every fetch_geometry task gives back the permit it took on every way
\* out (geometry, no geometry, non-200 status, exception): the free permits and
\* the requests in flight always add up to K; so, for K >= 1 and with every
\* request ending, no task waits at the gate forever and process_batch
\* returns with all K permits free.
C4_PermitAlwaysReleased ==
    /\ [](BatchRunning => sem_value + Cardinality(InFlight) = g_concurrent)
    /\ \A t \in Tasks : (t_pc[t] = "pending") ~> (t_pc[t] = "collected")
    /\ (g_pc = "start" /\ g_concurrent >= 1)
          ~> (g_pc = "done" /\ sem_value = g_concurrent)

\* the batch is over with every permit free, after a request that raised, one
\* that was refused by status and more tasks than permits
C4_Witness ==
    /\ g_pc = "done"
    /\ sem_value = g_concurrent
    /\ Len(geometry_ids) > g_concurrent
    /\ \E t \in Scheduled : t_out[t] = "exception"
    /\ \E t \in Scheduled : t_out[t] = "http_error"

(* --------------------------- C5, C6, C7 -------------------------------- *)
PoolRun == main_pc \in {"collecting", "fetched", "written", "raised"} /\ args.workers > 1
FetchOver == main_pc \in {"fetched", "written", "raised"}
Loaded(p) == page_out[p] \in {"rows", "nogeom", "malformed"}
InRange(p, r) == r[1] <= p /\ p <= r[2]
PagesOf(i) == { p \in Pages : InRange(p, page_ranges[i]) }
RowsOfRange(data, r) == SelectSeq(data, LAMBDA row : InRange(row.page, r))
Kept == drop_none(results)
dict_items(d) == { <<d[n].k, d[n].v>> : n \in DOMAIN d }

\* C5 as stated: in both harvest modes the failure of one unit's fetch is
\* confined to that unit: once the fetches are over, the payload of every
\* other unit whose own fetch succeeded is in the result (the rows of every
\* loaded page in the collected data, the geometry of every successful fetch
\* in the kept mapping).
C5_FailureStaysWithItsUnit ==
    /\ FetchOver =>
          \A p \in Pages : Loaded(p) =>
              \A k \in 1 .. RowsPerPage :
                  page_data(p, page_out[p])[k] \in Range(all_data)
    /\ g_pc = "done" =>
          \A t \in Scheduled : t_out[t] = "geometry" =>
              <<geometry_ids[t], Geometry(geometry_ids[t])>> \in dict_items(Kept)

\* C6: when a worker of the pool raises, parallel_fetch_data catches it: the
\* exception never leaves the pool, no row of any page of that worker's range
\* is in the result, the complete list of every worker that returned is, and
\* once every future is taken the pool has returned to main.
C6_WorkerCrashCaughtAtPool ==
    PoolRun =>
        /\ main_exc # "worker"
        /\ \A i \in 1 .. Len(page_ranges) :
              /\ (w_pc[i] = "raised" /\ FetchOver) =>
                    RowsOfRange(all_data, page_ranges[i]) = << >>
              /\ (w_pc[i] = "returned" /\ FetchOver) =>
                    RowsOfRange(all_data, page_ranges[i]) = w_data[i]
        /\ n_collected = Len(page_ranges) => FetchOver

\* a pool run that wrote its document although one worker raised after
\* loading a page, with the rows of another worker in the document
C6_Witness ==
    /\ PoolRun
    /\ main_pc = "written"
    /\ \E i, j \in 1 .. Len(page_ranges) :
          /\ w_pc[i] = "raised" /\ \E p \in PagesOf(i) : page_out[p] = "rows"
          /\ w_pc[j] = "returned" /\ w_data[j] # << >>
    /\ data_json[1] # << >>

\* C7 as stated: with valid arguments the run is never aborted, whatever
\* fails: only invalid arguments end a run that has written no document.
C7_OnlyInvalidArgumentsAbort ==
    /\ (main_pc \in {"rejected", "raised"} /\ data_json = << >>) =>
          args_rejected(args.max_pages, args.workers)
    /\ (g_pc = "rejected" /\ geojson_file = << >>) =>
          concurrent_rejected(g_concurrent)

(* ------------------------------ C8, C9 --------------------------------- *)
RECURSIVE in_order_results(_, _)
\* the results dict when the tasks complete in the order of the input
in_order_results(t, acc) ==
    IF t > Len(geometry_ids) THEN acc
    ELSE in_order_results(t + 1,
            dict_set(acc, geometry_ids[t],
                     fetched_value(geometry_ids[t], t_out[t])))

\* the position of task t in the order of completion
DonePos(t) == CHOOSE n \in DOMAIN done_q : done_q[n] = t
TasksOf(id) == { t \in Scheduled : geometry_ids[t] = id }
LastDone(id) ==
    CHOOSE t \in TasksOf(id) : \A u \in TasksOf(id) : DonePos(u) <= DonePos(t)
SameOutcomePerId ==
    \A t, u \in Scheduled : geometry_ids[t] = geometry_ids[u] => t_out[t] = t_out[u]

C9_MergeIgnoresCompletionOrder ==
    /\ (PoolRun /\ FetchOver) =>
          all_data = Concat([i \in 1 .. Len(page_ranges) |->
                               IF w_pc[i] = "returned" THEN w_data[i] ELSE << >>],
                            1, Len(page_ranges))
    /\ g_pc = "done" =>
          geojson_file[1] = create_geojson(drop_none(in_order_results(1, << >>)),
                                           properties_map)

(* -------------------------------- C10 ---------------------------------- *)
RunOver == main_pc \in {"written", "raised"}

\* C10 as stated: every page of every pool worker's range and every scheduled
\* geometry id is fetched exactly once and yields exactly one outcome.
C10_EveryUnitFetchedExactlyOnce ==
    /\ (PoolRun /\ FetchOver) =>
          \A i \in 1 .. Len(page_ranges) : \A p \in PagesOf(i) :
              fetch_count[p] = 1 /\ page_out[p] # "unfetched"
    /\ g_pc = "done" =>
          \A t \in Scheduled : t_fetches[t] = 1 /\ t_out[t] # "none"

\* C10 as amended: no unit is ever fetched twice.  Every scheduled geometry id
\* is fetched exactly once and has exactly one outcome when the batch is over.
\* A page is fetched exactly once when its worker returns; when its worker
\* raises (the browser does not start, the authentication page or a page
\* navigation fails) exactly the pages of its range before the raise have been
\* fetched and the rest never are.  A unit whose fetch failed is not fetched
\* again and contributes nothing: the collected rows are rows of loaded pages,
\* and every kept geometry is the one a successful fetch of that id returned.
C10_NoUnitFetchedTwice ==
    /\ \A p \in Pages : fetch_count[p] <= 1
    /\ \A p \in Pages : (fetch_count[p] = 1) <=> (page_out[p] # "unfetched")
    /\ \A t \in Tasks : t_fetches[t] <= 1
    /\ \A i \in 1 .. Len(page_ranges) :
          /\ w_pc[i] = "returned" => \A p \in PagesOf(i) : fetch_count[p] = 1
          /\ w_pc[i] = "raised" =>
                \A p \in PagesOf(i) :
                    /\ fetch_count[p] = 1 => \A q \in PagesOf(i) : q < p => Loaded(q) \/ page_out[q] = "fail"
                    /\ page_out[p] = "nav_raise" =>
                          \A q \in PagesOf(i) : q > p => fetch_count[q] = 0
                    /\ w_page[i] = 0 => fetch_count[p] = 0
    /\ \A n \in DOMAIN all_data : Loaded(all_data[n].page)
    /\ g_pc = "done" =>
          /\ \A t \in Scheduled : t_fetches[t] = 1 /\ t_out[t] # "none"
          /\ \A id \in dict_keys(Kept) :
                \E t \in TasksOf(id) :
                    t_out[t] = "geometry" /\ dict_get(Kept, id) = Geometry(id)

\* a finished pool run: one worker raised on a page navigation and left the
\* next page of its range unfetched; another returned after a caught failure
\* on one page (fetched once, no row kept) and the rows of another
C10_Witness ==
    /\ PoolRun /\ RunOver
    /\ \E i, j \in 1 .. Len(page_ranges) :
          /\ w_pc[i] = "raised" /\ w_pc[j] = "returned"
          /\ \E q, r \in PagesOf(i) :
                q < r /\ page_out[q] = "nav_raise" /\ fetch_count[r] = 0
          /\ \E p, l \in PagesOf(j) :
                /\ page_out[p] = "fail" /\ fetch_count[p] = 1
                /\ page_out[l] = "rows"

(* ------------------------------ C11, C12 ------------------------------- *)
FeaturesOut == geojson_file[1].features

\* the output features that carry record n's own fields and the geometry of
\* its id
FeaturesOfRecord(n) ==
    { k \in DOMAIN FeaturesOut :
        /\ FeaturesOut[k].properties =
              [geometry_id |-> records[n].geometry_id,
               zone_code |-> records[n].zone_code,
               municipality |-> records[n].municipality]
        /\ FeaturesOut[k].geometry = Geometry(records[n].geometry_id) }

\* C11 as stated: when the geometry run is over, every input record whose
\* geometry id has a fetched geometry has exactly one output feature with its
\* own zone_code and municipality and that geometry, every record whose id is
\* falsy or has no fetched geometry has none, and no feature has a null
\* geometry.
C11_EveryRecordJoinsItsOwnFeature ==
    g_pc = "done" =>
        /\ \A n \in DOMAIN records :
              Cardinality(FeaturesOfRecord(n)) =
                 IF records[n].geometry_id \in dict_keys(Kept) THEN 1 ELSE 0
        /\ \A k \in DOMAIN FeaturesOut : FeaturesOut[k].geometry # NoGeometry

EveryRecordHasId == \A n \in DOMAIN records : records[n].geometry_id # 0
EveryFetchSucceeded == \A t \in Scheduled : t_out[t] = "geometry"

\* C12 as stated: when the geometry run is over, the output has at most as
\* many features as the input has records, and exactly as many if and only if
\* every record has a geometry id and every fetch succeeded.
C12_FeatureCountMatchesRecords ==
    g_pc = "done" =>
        /\ Len(FeaturesOut) <= Len(records)
        /\ (Len(FeaturesOut) = Len(records))
              <=> (EveryRecordHasId /\ EveryFetchSucceeded)

(* ------------------------------ C13, C14 ------------------------------- *)
FlatOut == fl_file[1].features

NestedInput(n) ==
    /\ fl_data.features[n].geometry.tag = "dict"
    /\ fl_data.features[n].geometry.type = "FeatureCollection"

\* the output entries that come from input feature n: "municipality" is the
\* outer field no sub-record overrides
EntriesOfFeature(n) ==
    { j \in DOMAIN FlatOut :
        /\ dict_has(FlatOut[j].properties.items, "municipality")
        /\ dict_get(FlatOut[j].properties.items, "municipality") = 10 + n }

\* the output entries that come from sub-record k of input feature n
EntriesOfSub(n, k) ==
    { j \in DOMAIN FlatOut :
        FlatOut[j].geometry = fl_data.features[n].geometry.features[k].geometry }

\* C13: in every document flatten_geojson writes, a feature whose geometry is
\* a FeatureCollection of n sub-records has become exactly n entries (none
\* when n = 0), one per sub-record; the properties of each are the outer
\* feature's merged with the sub-record's own, the sub-record's value on every
\* common key, and the outer ones alone when the sub-record has no or empty
\* properties.  (A run that raises writes no document at all.)
C13_NestedFeatureBecomesItsSubRecords ==
    fl_pc = "written" =>
        \A n \in DOMAIN fl_data.features : NestedInput(n) =>
            LET outer == fl_data.features[n].properties.items
                subs == fl_data.features[n].geometry.features
            IN  /\ Cardinality(EntriesOfFeature(n)) = Len(subs)
                /\ \A k \in DOMAIN subs :
                      LET own == subs[k].properties.items IN
                      /\ Cardinality(EntriesOfSub(n, k)) = 1
                      /\ EntriesOfSub(n, k) \subseteq EntriesOfFeature(n)
                      /\ \A j \in EntriesOfSub(n, k) :
                            LET merged == FlatOut[j].properties IN
                            /\ FlatOut[j].type = subs[k].type
                            /\ merged.tag = "dict"
                            /\ Len(merged.items) = Cardinality(dict_keys(merged.items))
                            /\ dict_keys(merged.items) = dict_keys(outer) \cup dict_keys(own)
                            /\ \A key \in dict_keys(merged.items) :
                                  dict_get(merged.items, key) =
                                     IF dict_has(own, key) THEN dict_get(own, key)
                                     ELSE dict_get(outer, key)

\* a written document for an input whose first feature nests two sub-records,
\* one with a colliding zone_code of its own and one without "properties",
\* and whose second feature nests none
C13_Witness ==
    /\ fl_pc = "written"
    /\ Len(fl_data.features) = 2
    /\ NestedInput(1) /\ NestedInput(2)
    /\ Len(fl_data.features[1].geometry.features) = 2
    /\ dict_has(fl_data.features[1].geometry.features[1].properties.items, "zone_code")
    /\ fl_data.features[1].geometry.features[2].properties = Absent
    /\ fl_data.features[2].geometry.features = << >>
    /\ Len(FlatOut) = 2
    /\ dict_get(FlatOut[1].properties.items, "zone_code") = 111
    /\ dict_get(FlatOut[2].properties.items, "zone_code") = 1

\* what input feature n is to become: its sub-records in their own order with
\* the merged properties, or the feature itself
expected_entries(n) ==
    LET feature == fl_data.features[n] IN
    IF NestedInput(n)
    THEN [k \in DOMAIN feature.geometry.features |->
            [feature.geometry.features[k] EXCEPT
                !.properties = merge_properties(feature.properties,
                                                feature.geometry.features[k])]]
    ELSE <<feature>>

\* C14 as stated: called on a FeatureCollection, flatten_geojson writes the
\* entries in the order of the input features, the sub-records of a nested
\* feature in their own order at their parent's place, and every other feature
\* unchanged, also one whose geometry is null or absent; nothing is reordered
\* or dropped.
C14_OrderKeptAndOthersPassedThrough ==
    (fl_pc \in {"written", "raised"}) =>
        /\ fl_pc = "written"
        /\ FlatOut = Concat([n \in DOMAIN fl_data.features |-> expected_entries(n)],
                            1, Len(fl_data.features))

(* -------------------------------- C15 ---------------------------------- *)
WorkersAllOver == \A i \in 1 .. Len(page_ranges) : w_pc[i] \in {"returned", "raised"}
TasksAllOver ==
    /\ \A t \in Tasks : t_pc[t] \in {"none", "collected"}
    /\ \A t \in Scheduled : t_out[t] # "none"

\* C15: each harvest script writes its output document at most once, as a
\* whole, and only when every worker has returned or raised (and every future
\* of the pool is taken) or every fetch task has ended and been collected: no
\* document exists while a unit is pending or in flight; a run that completes
\* has written exactly one, a run that is refused or raises has written none.
C15_OutputWrittenOnceAtTheEnd ==
    /\ Len(data_json) <= 1
    /\ Len(geojson_file) <= 1
    /\ data_json # << >> =>
          /\ main_pc = "written"
          /\ WorkersAllOver
          /\ args.workers > 1 => n_collected = Len(page_ranges)
    /\ geojson_file # << >> =>
          /\ g_pc = "done"
          /\ TasksAllOver
          /\ progress = Len(geometry_ids)
    /\ main_pc = "written" => Len(data_json) = 1
    /\ g_pc = "done" => Len(geojson_file) = 1
    /\ main_pc \in {"rejected", "raised"} => data_json = << >>
    /\ g_pc = "rejected" => geojson_file = << >>

\* a pool run whose document was written after both workers had ended, one of
\* them raised, with rows in it
C15_Witness ==
    /\ main_pc = "written"
    /\ Len(page_ranges) = 2
    /\ w_pc[1] = "returned" /\ w_pc[2] = "raised"
    /\ Len(data_json) = 1 /\ data_json[1] # << >>

(* -------------------------------- C16 ---------------------------------- *)
FailedTasks == { t \in Scheduled : t_out[t] \in {"http_error", "exception"} }
NotFoundTasks == { t \in Scheduled : t_out[t] = "no_geometry" }
\* the only failure count the closing line gives: the ids attempted less the
\* geometries fetched
ReportedFailures == summary.total - summary.fetched

\* C16 as stated: when the geometry run is over, what a fetch answered with
\* HTTP 200 and no geometry returned differs from what a failed fetch (HTTP
\* error or exception) returned, and the failures the summary reports are
\* exactly the fetches that failed, the not-found ones left out.
C16_NotFoundIsNotAFailure ==
    g_pc = "done" =>
        /\ \A t \in NotFoundTasks : \A u \in FailedTasks :
              geometry_ids[t] = geometry_ids[u] =>
                 fetched_value(geometry_ids[t], t_out[t])
                    # fetched_value(geometry_ids[u], t_out[u])
        /\ ReportedFailures = Cardinality(FailedTasks)

(* -------------------------------- C17 ---------------------------------- *)
\* C17: a scraper run with --max-pages < 1 or --workers < 1 and a geometry
\* run with --concurrent < 1 only ever print their error and return: no page
\* range is computed, no worker is started, no browser opened, no page or
\* geometry fetched, no task created, no exception raised and no document
\* written.
C17_InvalidArgumentsStopBeforeWork ==
    /\ (main_pc # "idle" /\ (args.max_pages < 1 \/ args.workers < 1)) =>
          /\ main_pc \in {"start", "rejected"}
          /\ main_exc = "none"
          /\ page_ranges = << >>
          /\ \A i \in Workers :
                w_pc[i] = "unused" /\ browser[i] = "none" /\ quits[i] = 0
          /\ \A p \in Pages : fetch_count[p] = 0 /\ page_out[p] = "unfetched"
          /\ all_data = << >>
          /\ data_json = << >>
    /\ (g_pc # "idle" /\ g_concurrent < 1) =>
          /\ g_pc \in {"start", "rejected"}
          /\ geometry_ids = << >>
          /\ \A t \in Tasks : t_pc[t] = "none" /\ t_fetches[t] = 0
          /\ results = << >>
          /\ geojson_file = << >>

\* a scraper run refused for --workers 0 although --max-pages is valid
C17_Witness ==
    /\ main_pc = "rejected"
    /\ args.workers = 0
    /\ args.max_pages >= 1

(* -------------------------------- C18 ---------------------------------- *)
\* the pages of worker i's range whose fetch has been started
FetchedOf(i) == { p \in PagesOf(i) : fetch_count[p] >= 1 }

\* the rows the pages lo .. hi gave, in page order
RowsInPageOrder(lo, hi) ==
    Concat([p \in Pages |-> page_data(p, page_out[p])], lo, hi)

\* worker i is inside its for loop or has left it by return
InLoop(i) == w_pc[i] \in {"paging", "returned"}

\* C18: a page worker fetches the pages of its range one at a time in
\* ascending order: the pages fetched so far are always an initial part of the
\* range, each fetched once, every one but the last has ended without raising,
\* and a step of the worker fetches one page only, the one that follows the
\* pages already fetched; the worker's list is at any time the rows of the
\* pages fetched so far in page order, so that a worker that returns after
\* loading every page returns the concatenation of its pages' rows.  The
\* steps of distinct workers are not ordered.
C18_PagesOneAtATimeAscending ==
    /\ [](\A i \in 1 .. Len(page_ranges) :
            /\ \A p, q \in PagesOf(i) :
                  (p < q /\ q \in FetchedOf(i)) =>
                      /\ fetch_count[p] = 1
                      /\ page_out[p] \in PageOutcomes \ {"nav_raise"}
            /\ InLoop(i) =>
                  /\ FetchedOf(i) = { p \in PagesOf(i) : p < w_page[i] }
                  /\ \A p \in FetchedOf(i) : fetch_count[p] = 1
                  /\ w_data[i] = RowsInPageOrder(page_ranges[i][1], w_page[i] - 1)
            /\ (w_pc[i] = "returned" /\ \A p \in PagesOf(i) : page_out[p] = "rows") =>
                  w_data[i] = Concat([p \in Pages |-> page_data(p, "rows")],
                                     page_ranges[i][1], page_ranges[i][2]))
    /\ [][\A i \in 1 .. Len(page_ranges) :
            \A p \in PagesOf(i) :
               fetch_count'[p] # fetch_count[p] =>
                  /\ fetch_count[p] = 0 /\ fetch_count'[p] = 1
                  /\ \A q \in PagesOf(i) : q < p <=> q \in FetchedOf(i)
                  /\ \A q \in PagesOf(i) : q # p => fetch_count'[q] = fetch_count[q]]_vars

\* the first worker has returned the rows of its two loaded pages in page
\* order while the second one, its first page fetched, still has a page to go
C18_Witness ==
    /\ main_pc = "collecting"
    /\ Len(page_ranges) = 2
    /\ w_pc[1] = "returned"
    /\ Cardinality(PagesOf(1)) = 2
    /\ \A p \in PagesOf(1) : page_out[p] = "rows"
    /\ Len(w_data[1]) = 2 * RowsPerPage
    /\ w_data[1][1].page < w_data[1][Len(w_data[1])].page
    /\ w_pc[2] = "paging"
    /\ Cardinality(FetchedOf(2)) = 1
    /\ Cardinality(PagesOf(2)) = 2

(* -------------------------------- C19 ---------------------------------- *)
WorkerOver(i) == w_pc[i] \in {"returned", "raised"}

\* C19: every worker has a browser of its own, opened at most once.  It is
\* open only while the worker authenticates or pages, browser.quit() is called
\* on it exactly once when the worker returns or raises after having opened
\* it (on the authentication page or on a page navigation), never otherwise
\* and never twice; a worker whose browser did not start has none to close.
\* Once the fetching is over no browser is open.
C19_BrowserClosedExactlyOnce ==
    /\ \A i \in Workers :
          /\ quits[i] <= 1
          /\ (browser[i] = "closed") <=> (quits[i] = 1)
          /\ browser[i] = "open" => w_pc[i] \in {"opened", "paging"}
          /\ w_pc[i] \in {"opened", "paging"} => browser[i] = "open"
          /\ w_pc[i] = "returned" => browser[i] = "closed"
          /\ w_pc[i] = "raised" =>
                /\ browser[i] \in {"none", "closed"}
                /\ browser[i] = "none" => \A p \in PagesOf(i) : fetch_count[p] = 0
          /\ w_pc[i] \in {"unused", "submitted"} => browser[i] = "none"
    /\ FetchOver => \A i \in Workers : browser[i] # "open"

\* the pool has returned: one worker returned, the other raised on a page
\* navigation, and each closed its browser once
C19_Witness ==
    /\ PoolRun /\ FetchOver
    /\ w_pc[1] = "returned" /\ w_pc[2] = "raised"
    /\ \E p \in PagesOf(2) : page_out[p] = "nav_raise"
    /\ quits[1] = 1 /\ quits[2] = 1
    /\ browser[1] = "closed" /\ browser[2] = "closed"

(* -------------------------------- C20 ---------------------------------- *)
FalsyRecords == { n \in DOMAIN records : records[n].geometry_id = 0 }
TasksCreated == { t \in Tasks : t_pc[t] # "none" }

\* C20: a record with a falsy geometry id is left out before anything is
\* fetched: the scheduled ids are the truthy ids of the input, one task is
\* created per scheduled id and none else, so that no request is issued and
\* no permit held for a falsy id; no falsy id is a key of the results or of a
\* written feature, and the total of the closing line is the number of tasks
\* created, the records with a falsy id not counted.  Likewise process_data
\* writes no row whose geometry id is falsy.
C20_FalsyIdExcludedBeforeFetch ==
    /\ g_pc \in {"gathering", "done"} =>
          /\ Len(geometry_ids) = Len(records) - Cardinality(FalsyRecords)
          /\ \A t \in Scheduled : geometry_ids[t] # 0
          /\ TasksCreated = Scheduled
          /\ \A t \in Tasks \ Scheduled : t_fetches[t] = 0 /\ t_out[t] = "none"
          /\ InFlight \subseteq Scheduled
          /\ sem_value + Cardinality(InFlight) = g_concurrent
          /\ 0 \notin dict_keys(results)
          /\ 0 \notin dict_keys(properties_map)
    /\ g_pc = "done" =>
          /\ summary.total = Cardinality(TasksCreated)
          /\ summary.total = Len(records) - Cardinality(FalsyRecords)
          /\ \A k \in DOMAIN FeaturesOut : FeaturesOut[k].properties.geometry_id # 0
    /\ main_pc = "written" =>
          \A k \in DOMAIN data_json[1] : data_json[1][k].geometry_id # 0

\* a finished run on three records, the first without a geometry id: two
\* tasks were created, two ids are reported as attempted, one is in the output
C20_Witness ==
    /\ g_pc = "done"
    /\ Len(records) = 3
    /\ records[1].geometry_id = 0
    /\ Cardinality(TasksCreated) = 2
    /\ summary.total = 2
    /\ Len(FeaturesOut) = 1
    /\ \A t \in Tasks : t_fetches[t] = IF t \in Scheduled THEN 1 ELSE 0

====
